---- MODULE Spec2Model ----
(***************************************************************************)
(* The asynchronous download job pipeline of src/main.py: submission       *)
(* (submit_download_job), the background Runner (download_and_update_db    *)
(* and its progress hook), status polling (get_download_status) and file   *)
(* retrieval (download_file, FinalCleanUpFileResponse).                    *)
(*                                                                         *)
(* The Job Store is the table YT_DOWNLOAD_JOBS, one row per job_id.  Every *)
(* write through execute_query either commits or raises DatabaseError and  *)
(* rolls back (database_helper.DatabaseCursor); each writing action takes  *)
(* that outcome as the input dbOk.  The SELECTs of the two GET endpoints   *)
(* are taken to return the stored row.                                     *)
(*                                                                         *)
(* A scratch directory made by tempfile.mkdtemp is named by the job whose  *)
(* Runner made it.  Files in it are named by the role the Runner's lookup  *)
(* gives them: "pred" is the predicted final file (sanitised title plus    *)
(* expected extension), "alt" another file with the expected extension,    *)
(* "junk" a file with a different extension.                               *)
(***************************************************************************)
EXTENDS Integers, Sequences, FiniteSets, TLC

\* ---- bounds ----
MaxJobs == 1        \* jobs that Spec, SpecRun and SpecJob accept
MaxBytes == 1       \* largest total_bytes a callback reports
MaxReqs == 2        \* retrieval requests in flight at the same time

\* The job ids a client may name.  SpecPair accepts a job under each of them;
\* under the other specifications the last one is never generated: it is the
\* id of no job.
JobIds == 1..(MaxJobs + 1)
ReqIds == 1..MaxReqs

\* ---- values ----
Formats == {"mp3", "mp4", "wav"}          \* what a client may send as format
FileNames == {"pred", "alt", "junk"}
Phases == {"downloading", "finished", "error"}

NoDir == 0
NULL == [dir |-> NoDir, name |-> "NULL"]          \* SQL NULL / Python None
ERROR == [dir |-> NoDir, name |-> "ERROR"]        \* the string 'ERROR'
Path(d, f) == [dir |-> d, name |-> f]             \* os.path.join(temp_dir, f)

NoRow == [status |-> "ABSENT", progress |-> 0, final_filepath |-> NULL,
          start_time |-> FALSE, end_time |-> FALSE]

VARIABLES
    rows,        \* YT_DOWNLOAD_JOBS: job_id -> row, NoRow when there is none
    nextId,      \* the next value uuid.uuid4() returns
    sub,         \* the submission in flight: between the insert and add_task
    submitResp,  \* the last response of submit_download_job
    runner,      \* per job: position and locals of download_and_update_db,
                 \* and hook_e: the hook has printed a progress update error
    fs,          \* per scratch directory: does it exist, and its files
    reqs,        \* per retrieval request: position and locals of download_file
    pollResp,    \* the last response of get_download_status
    served,      \* per job: number of requests handed a FinalCleanUpFileResponse
    retrieved    \* jobs for which a response has finished transfer and cleanup

vars == <<rows, nextId, sub, submitResp, runner, fs, reqs, pollResp,
          served, retrieved>>

\* ---- the Job Store: database_helper.execute_query ----

\* UPDATE YT_DOWNLOAD_JOBS SET <fields> WHERE job_id = j; a failed statement
\* is rolled back and leaves the table as it was.
UpdateRow(j, fields, dbOk) ==
    IF dbOk /\ rows[j] # NoRow
    THEN [rows EXCEPT ![j] = [k \in DOMAIN rows[j] |->
                                 IF k \in DOMAIN fields THEN fields[k]
                                                        ELSE rows[j][k]]]
    ELSE rows

\* ---- the file system ----
exists(p) == /\ p.dir \in JobIds
             /\ fs[p.dir].dir
             /\ p.name \in fs[p.dir].files

\* ---- DownloadRequest ----
\* format: str instead of Literal["mp3", "mp4"].
ValidFormat_any(f) == f \in Formats

\* format: Literal["mp3", "mp4"]
ValidFormat(f) == f \in {"mp3", "mp4"}

IdleRunner == [pc |-> "none", final_filepath |-> NULL, hook_e |-> FALSE]
IdleReq == [pc |-> "idle", job_id |-> 0, status |-> "none",
            file_path |-> NULL, code |-> 0]
IdleSub == [pc |-> "idle", job_id |-> 0, format |-> "none"]
NoPoll == [job_id |-> 0, code |-> 0, status |-> "none", progress |-> 0]

Init ==
    /\ rows = [j \in JobIds |-> NoRow]
    /\ nextId = 1
    /\ sub = IdleSub
    /\ submitResp = [format |-> "none", code |-> 0, job_id |-> 0]
    /\ runner = [j \in JobIds |-> IdleRunner]
    /\ fs = [j \in JobIds |-> [dir |-> FALSE, files |-> {}]]
    /\ reqs = [r \in ReqIds |-> IdleReq]
    /\ pollResp = NoPoll
    /\ served = [j \in JobIds |-> 0]
    /\ retrieved = {}

\* ---- POST /submit_download_job ----

\* The body fails validation against DownloadRequest: FastAPI answers 422
\* before the handler runs.
submit_rejected(f) ==
    /\ sub.pc = "idle"
    /\ ~ValidFormat(f)
    /\ submitResp' = [format |-> f, code |-> 422, job_id |-> 0]
    /\ UNCHANGED <<rows, nextId, sub, runner, fs, reqs, pollResp,
                   served, retrieved>>

\* The INSERT's DatabaseError swallowed: the handler goes on to add_task.
submit_insert_swallow(f, dbOk) ==
    /\ sub.pc = "idle"
    /\ ValidFormat(f)
    /\ nextId \in JobIds
    /\ nextId' = nextId + 1
    /\ rows' = IF dbOk
               THEN [rows EXCEPT ![nextId] =
                        [status |-> "PENDING", progress |-> 0,
                         final_filepath |-> NULL, start_time |-> FALSE,
                         end_time |-> FALSE]]
               ELSE rows
    /\ sub' = [pc |-> "inserted", job_id |-> nextId, format |-> f]
    /\ UNCHANGED <<submitResp, runner, fs, reqs, pollResp, served, retrieved>>

\* An INSERT that stores the new row as already PROCESSING at progress 10.
submit_insert_processing(f, dbOk) ==
    /\ sub.pc = "idle"
    /\ ValidFormat(f)
    /\ nextId \in JobIds
    /\ nextId' = nextId + 1
    /\ IF dbOk
       THEN /\ rows' = [rows EXCEPT ![nextId] =
                           [status |-> "PROCESSING", progress |-> 10,
                            final_filepath |-> NULL, start_time |-> FALSE,
                            end_time |-> FALSE]]
            /\ sub' = [pc |-> "inserted", job_id |-> nextId, format |-> f]
            /\ UNCHANGED submitResp
       ELSE /\ submitResp' = [format |-> f, code |-> 500, job_id |-> 0]
            /\ UNCHANGED <<rows, sub>>
    /\ UNCHANGED <<runner, fs, reqs, pollResp, served, retrieved>>

\* job_id = uuid4(); the awaited INSERT.  On DatabaseError the handler raises
\* HTTPException(500); otherwise it resumes at add_task.
submit_insert(f, dbOk) ==
    /\ sub.pc = "idle"
    /\ ValidFormat(f)
    /\ nextId \in JobIds
    /\ nextId' = nextId + 1
    /\ IF dbOk
       THEN /\ rows' = [rows EXCEPT ![nextId] =
                           [status |-> "PENDING", progress |-> 0,
                            final_filepath |-> NULL, start_time |-> FALSE,
                            end_time |-> FALSE]]
            /\ sub' = [pc |-> "inserted", job_id |-> nextId, format |-> f]
            /\ UNCHANGED submitResp
       ELSE /\ submitResp' = [format |-> f, code |-> 500, job_id |-> 0]
            /\ UNCHANGED <<rows, sub>>
    /\ UNCHANGED <<runner, fs, reqs, pollResp, served, retrieved>>

\* background_tasks.add_task(...) and the return of {"job_id": ...}.
submit_add_task ==
    /\ sub.pc = "inserted"
    /\ runner' = [runner EXCEPT ![sub.job_id].pc = "scheduled"]
    /\ submitResp' = [format |-> sub.format, code |-> 200,
                      job_id |-> sub.job_id]
    /\ sub' = IdleSub
    /\ UNCHANGED <<rows, nextId, fs, reqs, pollResp, served, retrieved>>

\* ---- the Runner: download_and_update_db(job_id, url, target_format) ----

\* status_map.get(d['status'], 'PROCESSING')
status_map(phase) == IF phase = "error" THEN "FAILED" ELSE "PROCESSING"

\* The ratio scaled to the whole range instead of its lower 90%.
ScaleTo100(downloaded, total) == (downloaded * 100) \div total

\* int((downloaded_bytes / total_bytes) * 90).  Python computes the quotient
\* and the product in double precision; for every total within MaxBytes the
\* truncated result is the exact floor (the two first differ at 7/10, where
\* the double product is 62.99...).
ScaleTo90(downloaded, total) == (downloaded * 90) \div total

\* The hook's progress_percent; total = 0 stands for a callback without a
\* (truthy) total_bytes.
progress_percent(phase, downloaded, total) ==
    IF status_map(phase) = "PROCESSING"
    THEN IF total # 0 THEN ScaleTo90(downloaded, total)
         ELSE IF phase = "finished" THEN 95
         ELSE 10
    ELSE 0

\* temp_dir = tempfile.mkdtemp(), before the try block: an OSError leaves the
\* background task without having written anything.
mkdtemp(j, osOk) ==
    /\ runner[j].pc = "scheduled"
    /\ IF osOk
       THEN /\ fs' = [fs EXCEPT ![j] = [dir |-> TRUE, files |-> {}]]
            /\ runner' = [runner EXCEPT ![j].pc = "start"]
       ELSE /\ runner' = [runner EXCEPT ![j].pc = "crashed"]
            /\ UNCHANGED fs
    /\ UNCHANGED <<rows, nextId, sub, submitResp, reqs, pollResp,
                   served, retrieved>>

\* UPDATE ... SET status='PROCESSING', start_time=GETDATE(), progress=10
start_write(j, dbOk) ==
    /\ runner[j].pc = "start"
    /\ rows' = UpdateRow(j, [status |-> "PROCESSING", start_time |-> TRUE,
                             progress |-> 10], dbOk)
    /\ runner' = [runner EXCEPT ![j].pc =
                     IF dbOk THEN "extract_info" ELSE "except"]
    /\ UNCHANGED <<nextId, sub, submitResp, fs, reqs, pollResp,
                   served, retrieved>>

\* ydl.extract_info(url, download=False) returns or raises.
extract_info(j, ok) ==
    /\ runner[j].pc = "extract_info"
    /\ runner' = [runner EXCEPT ![j].pc =
                     IF ok THEN "download" ELSE "except"]
    /\ UNCHANGED <<rows, nextId, sub, submitResp, fs, reqs, pollResp,
                   served, retrieved>>

\* A hook whose UPDATE has no WHERE clause: it writes every row of the table.
hook_every_row(j, phase, downloaded, total, dbOk) ==
    /\ runner[j].pc = "download"
    /\ rows' = [k \in JobIds |->
                   IF dbOk /\ rows[k] # NoRow
                   THEN [rows[k] EXCEPT
                           !.status = status_map(phase),
                           !.progress = progress_percent(phase, downloaded,
                                                         total)]
                   ELSE rows[k]]
    /\ runner' = [runner EXCEPT ![j].hook_e = @ \/ ~dbOk]
    /\ UNCHANGED <<nextId, sub, submitResp, fs, reqs, pollResp,
                   served, retrieved>>

\* A hook without its own except clause: the DatabaseError of its UPDATE
\* passes through the fetcher into the except clause of the Runner.
hook_raise(j, phase, downloaded, total, dbOk) ==
    /\ runner[j].pc = "download"
    /\ rows' = UpdateRow(j, [status |-> status_map(phase),
                             progress |-> progress_percent(phase, downloaded,
                                                           total)], dbOk)
    /\ runner' = [runner EXCEPT ![j].hook_e = @ \/ ~dbOk,
                                ![j].pc = IF dbOk THEN @ ELSE "except"]
    /\ UNCHANGED <<nextId, sub, submitResp, fs, reqs, pollResp,
                   served, retrieved>>

\* One callback of the fetcher into hook(d) while final_ydl.download runs.
\* A failed UPDATE is caught by the hook's own except clause, which prints
\* the error and returns.
hook(j, phase, downloaded, total, dbOk) ==
    /\ runner[j].pc = "download"
    /\ rows' = UpdateRow(j, [status |-> status_map(phase),
                             progress |-> progress_percent(phase, downloaded,
                                                           total)], dbOk)
    /\ runner' = [runner EXCEPT ![j].hook_e = @ \/ ~dbOk]
    /\ UNCHANGED <<nextId, sub, submitResp, fs, reqs, pollResp,
                   served, retrieved>>

\* The predicted path taken without the existence check and the fallback scan.
locate_file_predicted(j, files) ==
    IF files # {} THEN Path(j, "pred") ELSE NULL

\* Lines 277-289 on the directory listing `files`: the predicted path if it
\* exists, else a listed file with the expected extension, else NULL (the
\* "file generation failed" exception).
locate_file(j, files) ==
    IF "pred" \in files THEN Path(j, "pred")
    ELSE IF "alt" \in files THEN Path(j, "alt")
    ELSE NULL

\* final_ydl.download([url]) returns or raises, leaving `files` in temp_dir;
\* when it returns, the Runner looks for the final file.
download(j, ok, files) ==
    /\ runner[j].pc = "download"
    /\ fs' = [fs EXCEPT ![j].files = files]
    /\ runner' = [runner EXCEPT ![j] =
          IF ok /\ locate_file(j, files) # NULL
          THEN [@ EXCEPT !.pc = "complete",
                         !.final_filepath = locate_file(j, files)]
          ELSE [@ EXCEPT !.pc = "except"]]
    /\ UNCHANGED <<rows, nextId, sub, submitResp, reqs, pollResp,
                   served, retrieved>>

\* UPDATE ... SET status='COMPLETED', progress=100, final_filepath=?,
\* end_time=GETDATE(); a DatabaseError lands in the except clause.
completed_write(j, dbOk) ==
    /\ runner[j].pc = "complete"
    /\ rows' = UpdateRow(j, [status |-> "COMPLETED", progress |-> 100,
                             final_filepath |-> runner[j].final_filepath,
                             end_time |-> TRUE], dbOk)
    /\ runner' = [runner EXCEPT ![j].pc = IF dbOk THEN "done" ELSE "except"]
    /\ UNCHANGED <<nextId, sub, submitResp, fs, reqs, pollResp,
                   served, retrieved>>

\* except Exception: UPDATE ... SET status='FAILED', progress=0,
\* end_time=GETDATE(), final_filepath='ERROR'; a DatabaseError here leaves
\* the function before the cleanup.
failed_write(j, dbOk) ==
    /\ runner[j].pc = "except"
    /\ rows' = UpdateRow(j, [status |-> "FAILED", progress |-> 0,
                             end_time |-> TRUE, final_filepath |-> ERROR],
                         dbOk)
    /\ runner' = [runner EXCEPT ![j].pc = IF dbOk THEN "rmtree" ELSE "crashed"]
    /\ UNCHANGED <<nextId, sub, submitResp, fs, reqs, pollResp,
                   served, retrieved>>

\* if temp_dir and os.path.exists(temp_dir): shutil.rmtree(temp_dir)
rmtree(j) ==
    /\ runner[j].pc = "rmtree"
    /\ fs' = [fs EXCEPT ![j] = IF fs[j].dir
                               THEN [dir |-> FALSE, files |-> {}]
                               ELSE @]
    /\ runner' = [runner EXCEPT ![j].pc = "done"]
    /\ UNCHANGED <<rows, nextId, sub, submitResp, reqs, pollResp,
                   served, retrieved>>

\* ---- GET /download_status/{job_id} ----
\* The answer for what the SELECT returned; the handler's DatabaseError and
\* KeyError branches (500) belong to a failing read.
get_download_status(j) ==
    /\ pollResp' = IF rows[j] = NoRow
                   THEN [job_id |-> j, code |-> 404, status |-> "none",
                         progress |-> 0]
                   ELSE [job_id |-> j, code |-> 200,
                         status |-> rows[j].status,
                         progress |-> rows[j].progress]
    /\ UNCHANGED <<rows, nextId, sub, submitResp, runner, fs, reqs,
                   served, retrieved>>

\* ---- GET /download_file/{job_id} ----

\* The awaited SELECT final_filepath, status; 404 when there is no row.
download_file_select(r, j) ==
    /\ reqs[r].pc \in {"idle", "done"}
    /\ reqs' = [reqs EXCEPT ![r] =
          IF rows[j] = NoRow
          THEN [pc |-> "done", job_id |-> j, status |-> "none",
                file_path |-> NULL, code |-> 404]
          ELSE [pc |-> "selected", job_id |-> j, status |-> rows[j].status,
                file_path |-> rows[j].final_filepath, code |-> 0]]
    /\ UNCHANGED <<rows, nextId, sub, submitResp, runner, fs, pollResp,
                   served, retrieved>>

\* The sentinel check placed before the status check.
download_file_code_sentinel_first(status, file_path) ==
    IF file_path = NULL \/ file_path = ERROR THEN 404
    ELSE IF status # "COMPLETED" THEN 400
    ELSE IF ~exists(file_path) THEN 404
    ELSE 200

\* The outcome of lines 381-420 for what the SELECT returned.
download_file_code(status, file_path) ==
    IF status # "COMPLETED" THEN 400
    ELSE IF file_path = NULL \/ file_path = ERROR THEN 404
    ELSE IF ~exists(file_path) THEN 404
    ELSE 200

\* The checks after the SELECT, up to the return of the response object.
download_file(r) ==
    /\ reqs[r].pc = "selected"
    /\ LET code == download_file_code(reqs[r].status, reqs[r].file_path) IN
       /\ reqs' = [reqs EXCEPT ![r].pc = IF code = 200 THEN "response"
                                                       ELSE "done",
                               ![r].code = code]
       /\ served' = IF code = 200
                    THEN [served EXCEPT ![reqs[r].job_id] = @ + 1]
                    ELSE served
    /\ UNCHANGED <<rows, nextId, sub, submitResp, runner, fs, pollResp,
                   retrieved>>

\* A finally block that removes the directory when empty but not the file.
CleanUp_keep_file(p) ==
    [fs EXCEPT ![p.dir] = IF fs[p.dir].dir /\ fs[p.dir].files = {}
                          THEN [dir |-> FALSE, files |-> {}]
                          ELSE @]

\* A finally block that removes the whole directory (shutil.rmtree).
CleanUp_rmtree(p) ==
    [fs EXCEPT ![p.dir] = [dir |-> FALSE, files |-> {}]]

\* The finally block of FinalCleanUpFileResponse.__call__ on self.path.
CleanUp(p) ==
    LET removed == IF exists(p) THEN fs[p.dir].files \ {p.name}
                                ELSE fs[p.dir].files
    IN  [fs EXCEPT ![p.dir] =
            IF fs[p.dir].dir /\ removed = {}
            THEN [dir |-> FALSE, files |-> {}]          \* os.rmdir succeeded
            ELSE [dir |-> fs[p.dir].dir, files |-> removed]]

\* FinalCleanUpFileResponse.__call__: the transfer ends (sent in full, or
\* cut short by an exception) and the finally block runs.
FinalCleanUpFileResponse(r, sent) ==
    /\ reqs[r].pc = "response"
    /\ fs' = CleanUp(reqs[r].file_path)
    /\ reqs' = [reqs EXCEPT ![r].pc = "done",
                            ![r].code = IF sent THEN 200 ELSE 500]
    /\ retrieved' = retrieved \cup {reqs[r].job_id}
    /\ UNCHANGED <<rows, nextId, sub, submitResp, runner, pollResp, served>>

Submission ==
    \/ \E f \in Formats : submit_rejected(f)
    \/ /\ nextId <= MaxJobs
       /\ \E f \in Formats, dbOk \in BOOLEAN : submit_insert(f, dbOk)
    \/ submit_add_task

Runner ==
    \/ \E j \in JobIds, osOk \in BOOLEAN : mkdtemp(j, osOk)
    \/ \E j \in JobIds, dbOk \in BOOLEAN : start_write(j, dbOk)
    \/ \E j \in JobIds, ok \in BOOLEAN : extract_info(j, ok)
    \/ \E j \in JobIds, phase \in Phases, total \in 0..MaxBytes,
          dbOk \in BOOLEAN :
          \E downloaded \in 0..total : hook(j, phase, downloaded, total, dbOk)
    \/ \E j \in JobIds, ok \in BOOLEAN, files \in SUBSET FileNames :
          download(j, ok, files)
    \/ \E j \in JobIds, dbOk \in BOOLEAN : completed_write(j, dbOk)
    \/ \E j \in JobIds, dbOk \in BOOLEAN : failed_write(j, dbOk)
    \/ \E j \in JobIds : rmtree(j)

Polling == \E j \in JobIds : get_download_status(j)

Retrieval ==
    \/ \E r \in ReqIds, j \in JobIds : download_file_select(r, j)
    \/ \E r \in ReqIds : download_file(r)
    \/ \E r \in ReqIds, sent \in BOOLEAN : FinalCleanUpFileResponse(r, sent)

Next == Submission \/ Runner \/ Polling \/ Retrieval
NextRun == Submission \/ Runner \/ Polling
NextJob == Submission \/ Runner

\* Two jobs side by side: a job is accepted under every id of JobIds.  The
\* callbacks report no total, the fetcher leaves at most the predicted file,
\* and one retrieval request is in flight at a time.
PairSubmission ==
    \/ \E dbOk \in BOOLEAN : submit_insert("mp3", dbOk)
    \/ submit_add_task

PairRunner ==
    \/ \E j \in JobIds, osOk \in BOOLEAN : mkdtemp(j, osOk)
    \/ \E j \in JobIds, dbOk \in BOOLEAN : start_write(j, dbOk)
    \/ \E j \in JobIds, ok \in BOOLEAN : extract_info(j, ok)
    \/ \E j \in JobIds, phase \in Phases, dbOk \in BOOLEAN :
          hook(j, phase, 0, 0, dbOk)
    \/ \E j \in JobIds, ok \in BOOLEAN, files \in SUBSET {"pred"} :
          download(j, ok, files)
    \/ \E j \in JobIds, dbOk \in BOOLEAN : completed_write(j, dbOk)
    \/ \E j \in JobIds, dbOk \in BOOLEAN : failed_write(j, dbOk)
    \/ \E j \in JobIds : rmtree(j)

PairRetrieval ==
    \/ \E j \in JobIds : download_file_select(1, j)
    \/ download_file(1)
    \/ \E sent \in BOOLEAN : FinalCleanUpFileResponse(1, sent)

NextPair == PairSubmission \/ PairRunner \/ Polling \/ PairRetrieval

Spec == Init /\ [][Next]_vars
SpecRun == Init /\ [][NextRun]_vars
SpecJob == Init /\ [][NextJob]_vars
SpecPair == Init /\ [][NextPair]_vars

\* ---- properties ----

HasRow(j) == rows[j] # NoRow
RealPath(p) == p.dir \in JobIds

\* C1: the stored status of a job changes only along
\* PENDING -> PROCESSING -> {COMPLETED, FAILED} (after the insert creates the
\* row as PENDING): never from PENDING to a terminal status, never out of
\* COMPLETED or FAILED, never back to PENDING.
StatusOrder ==
    [][\A j \in JobIds :
          rows'[j].status # rows[j].status =>
             <<rows[j].status, rows'[j].status>> \in
                {<<"ABSENT", "PENDING">>, <<"PENDING", "PROCESSING">>,
                 <<"PROCESSING", "COMPLETED">>, <<"PROCESSING", "FAILED">>}]_vars

\* C2: two successive status polls of one job that both see PROCESSING report
\* progress values that do not decrease.
PollProgressMonotone ==
    [][(/\ pollResp'.job_id = pollResp.job_id
        /\ pollResp.status = "PROCESSING"
        /\ pollResp'.status = "PROCESSING")
          => pollResp'.progress >= pollResp.progress]_vars

\* C3: in every Job Store state, a row has progress 100 exactly when its status
\* is COMPLETED, and a FAILED row has progress 0.
ProgressMatchesStatus ==
    \A j \in JobIds :
        HasRow(j) =>
            /\ (rows[j].progress = 100) <=> (rows[j].status = "COMPLETED")
            /\ (rows[j].status = "FAILED") => (rows[j].progress = 0)

\* C3 witness: a job was completed after its hook had reported the download
\* in full.
CompletedAt100 ==
    \E j \in JobIds : /\ rows[j].status = "COMPLETED"
                      /\ rows[j].progress = 100
                      /\ runner[j].pc = "done"

\* C4: in every Job Store state, final_filepath is NULL exactly for PENDING
\* and PROCESSING rows, 'ERROR' exactly for FAILED rows and a real path
\* exactly for COMPLETED rows.
FilepathMatchesStatus ==
    \A j \in JobIds :
        HasRow(j) =>
            /\ (rows[j].final_filepath = NULL)
                  <=> (rows[j].status \in {"PENDING", "PROCESSING"})
            /\ (rows[j].final_filepath = ERROR) <=> (rows[j].status = "FAILED")
            /\ RealPath(rows[j].final_filepath)
                  <=> (rows[j].status = "COMPLETED")

\* C5: once a retrieval of a job has finished its transfer and cleanup, the
\* job's file is gone, a request that looks the job up finds it COMPLETED, and
\* every request that reaches its verdict for that job gets 404.
RetrievedOnceThenNotFound ==
    /\ [](\A j \in retrieved : /\ rows[j].status = "COMPLETED"
                               /\ ~exists(rows[j].final_filepath))
    /\ [][\A r \in ReqIds :
             /\ (/\ reqs'[r].pc = "selected"
                 /\ reqs[r].pc # "selected"
                 /\ reqs'[r].job_id \in retrieved)
                   => reqs'[r].status = "COMPLETED"
             /\ (/\ reqs[r].pc = "selected"
                 /\ reqs[r].status = "COMPLETED"
                 /\ reqs[r].job_id \in retrieved
                 /\ reqs'[r] # reqs[r])
                   => (reqs'[r].pc = "done" /\ reqs'[r].code = 404)]_vars

\* C5 witness: a request for a retrieved job has been answered 404.
NotFoundAfterRetrieval ==
    \E r \in ReqIds : /\ reqs[r].pc = "done"
                      /\ reqs[r].code = 404
                      /\ reqs[r].job_id \in retrieved

\* C6: for every job, at most one retrieval request passes the existence
\* check and is handed the file.
FetchedAtMostOnce == \A j \in JobIds : served[j] <= 1

\* C7: every retrieval request that finds the job's stored status FAILED is
\* answered 404.
FailedJobNotFound ==
    \A r \in ReqIds :
        (reqs[r].pc = "done" /\ reqs[r].status = "FAILED")
            => reqs[r].code = 404

\* C8: a retrieval request that finds an existing job whose status is not
\* COMPLETED is answered 400, is handed no file and changes neither the Job
\* rows nor any scratch directory; a request for an unknown job_id is
\* answered 404.
NotReadyOrUnknown ==
    [][\A r \in ReqIds :
          /\ (/\ reqs[r].pc = "selected"
              /\ reqs[r].status # "COMPLETED"
              /\ reqs'[r] # reqs[r])
                => /\ reqs'[r].pc = "done"
                   /\ reqs'[r].code = 400
                   /\ UNCHANGED <<rows, fs, served, retrieved>>
          /\ (/\ reqs[r].pc # "selected"
              /\ reqs'[r] # reqs[r]
              /\ ~HasRow(reqs'[r].job_id))
                => /\ reqs'[r].pc = "done"
                   /\ reqs'[r].code = 404
                   /\ UNCHANGED <<rows, fs, served, retrieved>>]_vars

\* C8 witness: a request for a job still PROCESSING has been answered 400.
NotReadyAnswered ==
    \E r \in ReqIds : /\ reqs[r].pc = "done"
                      /\ reqs[r].status = "PROCESSING"
                      /\ reqs[r].code = 400

\* C9: a submission whose format is neither 'mp3' nor 'mp4' is answered 422
\* and changes nothing: no id is generated, no row is inserted, no Runner is
\* scheduled, no submission with such a format is ever in flight; and a status
\* poll for an id not yet issued is answered 404.
InvalidFormatRejected ==
    /\ [](sub.format \in {"none", "mp3", "mp4"})
    /\ [][(/\ submitResp' # submitResp
           /\ submitResp'.format \notin {"mp3", "mp4"})
             => /\ submitResp'.code = 422
                /\ UNCHANGED <<rows, nextId, sub, runner, fs>>]_vars
    /\ [][(pollResp' # pollResp /\ pollResp'.job_id >= nextId)
             => pollResp'.code = 404]_vars

\* C9 witness: a 'wav' submission was rejected and a poll then found no job.
RejectedThenPolled ==
    /\ submitResp.format = "wav"
    /\ submitResp.code = 422
    /\ pollResp.code = 404
    /\ \A j \in JobIds : ~HasRow(j)

\* C10: a submission that generates an id either inserts the row and goes on
\* to schedule the Runner, or (the insert failed) is answered 500 without a
\* job_id, leaving the Job Store and the Runners as they were; an id without a
\* row never has a Runner.
InsertFailureAborts ==
    /\ [](\A j \in JobIds : ~HasRow(j) => runner[j].pc = "none")
    /\ [][nextId' # nextId =>
             \/ /\ rows'[nextId] # NoRow
                /\ sub' = [pc |-> "inserted", job_id |-> nextId,
                           format |-> sub'.format]
             \/ /\ submitResp'.code = 500
                /\ submitResp'.job_id = 0
                /\ UNCHANGED <<rows, sub, runner>>]_vars

\* C10 witness: the insert of the first submission failed.
InsertFailed ==
    /\ submitResp.code = 500
    /\ nextId = 2
    /\ ~HasRow(1)
    /\ runner[1].pc = "none"

\* C11: a submission that generates an id inserts the row at that id, which
\* had none, as PENDING with progress 0; a Runner is scheduled only for a job
\* that has its row, and once its Runner has left "scheduled" a job is never
\* scheduled again; so a job without a row has had no Runner step, and a poll
\* answered before the Runner's start write sees PENDING with progress 0.
InsertBeforeRunner ==
    /\ [](\A j \in JobIds : runner[j].pc # "none" => HasRow(j))
    /\ [][\A j \in JobIds :
             /\ (~HasRow(j) /\ rows'[j] # NoRow)
                   => /\ j = nextId /\ nextId' = nextId + 1
                      /\ rows'[j].status = "PENDING"
                      /\ rows'[j].progress = 0
                      /\ runner'[j].pc = "none"
             /\ (runner'[j].pc = "scheduled")
                   => /\ runner[j].pc \in {"none", "scheduled"}
                      /\ HasRow(j)]_vars
    /\ [][(/\ pollResp' # pollResp
           /\ pollResp'.code = 200
           /\ runner[pollResp'.job_id].pc \in {"none", "scheduled", "start"})
             => (pollResp'.status = "PENDING" /\ pollResp'.progress = 0)]_vars

\* C11 witness: a poll saw the job PENDING while its Runner was scheduled and
\* had not started.
PolledBeforeStart ==
    \E j \in JobIds : /\ runner[j].pc = "scheduled"
                      /\ pollResp.job_id = j
                      /\ pollResp.status = "PENDING"
                      /\ pollResp.progress = 0

RunnerEnded(j) == runner[j].pc \in {"done", "crashed"}
Terminal == {"COMPLETED", "FAILED"}

\* C12: once the Runner of a job has ended, a stored status of FAILED means
\* the job's scratch directory is gone.
FailedMeansNoScratch ==
    \A j \in JobIds :
        (RunnerEnded(j) /\ rows[j].status = "FAILED") => ~fs[j].dir

\* C13: the stored final_filepath of a job names an existing file exactly
\* when the job's status is COMPLETED and no retrieval has finished its
\* cleanup for the job.
FilepathExistsIffCompleted ==
    \A j \in JobIds :
        HasRow(j) =>
            (exists(rows[j].final_filepath)
                <=> (rows[j].status = "COMPLETED" /\ j \notin retrieved))

\* C13 witness: a job completed on the file found by the fallback scan, and
\* the file is there.
CompletedOnScannedFile ==
    \E j \in JobIds : /\ rows[j].status = "COMPLETED"
                      /\ rows[j].final_filepath = Path(j, "alt")
                      /\ exists(rows[j].final_filepath)
                      /\ j \notin retrieved

\* C14: no write of the progress hook (a write while the download runs) sets
\* a terminal status, and once the status of a row is terminal no further
\* write changes the row.
TerminalWriteOnceAndLast ==
    [][\A j \in JobIds :
          /\ (/\ runner[j].pc = "download"
              /\ runner'[j].pc = "download"
              /\ rows'[j] # rows[j])
                => rows'[j].status \notin Terminal
          /\ (rows[j].status \in Terminal) => (rows'[j] = rows[j])]_vars

\* C15: a Runner that has ended, whichever of its steps failed, has left a
\* terminal status in its job's row.
EndedMeansTerminal ==
    \A j \in JobIds : RunnerEnded(j) => rows[j].status \in Terminal

\* C16: a step that changes an existing row of a job is a write of that
\* job's own Runner: it changes no other row, it is no step of a poll, of a
\* retrieval or of another job's Runner; and a step of a job's Runner changes
\* no scratch directory but its own.
JobIsolation ==
    [][\A j \in JobIds :
          /\ (HasRow(j) /\ rows'[j] # rows[j])
                => /\ runner[j].pc \in {"start", "download", "complete",
                                        "except"}
                   /\ pollResp' = pollResp
                   /\ reqs' = reqs
                   /\ \A k \in JobIds \ {j} :
                         rows'[k] = rows[k] /\ runner'[k] = runner[k]
          /\ (runner'[j] # runner[j])
                => \A k \in JobIds \ {j} : fs'[k] = fs[k]]_vars

\* C16 witness: one job is COMPLETED with its file in place while the Runner
\* of another job has failed, removed its own scratch directory and ended,
\* and a retrieval and a poll have been answered.
TwoJobsApart ==
    \E j, k \in JobIds :
        /\ j # k
        /\ rows[j].status = "COMPLETED" /\ exists(rows[j].final_filepath)
        /\ rows[k].status = "FAILED" /\ runner[k].pc = "done" /\ ~fs[k].dir
        /\ pollResp.job_id = k /\ pollResp.status = "FAILED"
        /\ reqs[1].job_id = k /\ reqs[1].code = 400

Outcome(j) ==
    <<rows[j].status, rows[j].progress, rows[j].final_filepath>>

\* C17: the first failed write of a job's hook leaves the Runner in the
\* download with the row and the scratch directory as they were; and what the
\* row shows once the Runner has returned is set by its terminal write alone:
\* COMPLETED, 100 and the located path when the scratch directory was kept,
\* FAILED, 0 and the sentinel when it was removed.
HookFailureSwallowed ==
    /\ [][\A j \in JobIds :
             (~runner[j].hook_e /\ runner'[j].hook_e)
                => /\ runner[j].pc = "download"
                   /\ runner'[j].pc = "download"
                   /\ rows' = rows
                   /\ fs' = fs]_vars
    /\ [](\A j \in JobIds :
             runner[j].pc = "done"
                => Outcome(j) =
                      IF fs[j].dir
                      THEN <<"COMPLETED", 100, runner[j].final_filepath>>
                      ELSE <<"FAILED", 0, ERROR>>)

\* C17 witness: a job whose hook had a write fail is COMPLETED with its file.
CompletedDespiteHookError ==
    \E j \in JobIds : /\ runner[j].hook_e
                      /\ runner[j].pc = "done"
                      /\ rows[j].status = "COMPLETED"
                      /\ RealPath(rows[j].final_filepath)

\* C18: when the response of a retrieval ends, sent in full or cut short, its
\* file is gone, the other files of the scratch directory are as they were,
\* and the directory is gone exactly when no other file is left in it.
CleanUpAfterTransfer ==
    [][\A r \in ReqIds :
          (reqs[r].pc = "response" /\ reqs'[r].pc # "response") =>
             LET p == reqs[r].file_path
                 others == fs[p.dir].files \ {p.name}
             IN  /\ ~exists(p)'
                 /\ fs'[p.dir].files = others
                 /\ (~fs'[p.dir].dir) <=> (others = {})]_vars

\* C18 witness: a response has ended and its scratch directory is still there
\* with another file in it.
DirectoryLeftWithOtherFiles ==
    \E r \in ReqIds : /\ reqs[r].pc = "done"
                      /\ reqs[r].code \in {200, 500}
                      /\ ~exists(reqs[r].file_path)
                      /\ fs[reqs[r].file_path.dir].dir
                      /\ fs[reqs[r].file_path.dir].files # {}

\* The progress policy of the specification: the transfer ratio scaled to 90
\* while downloading with a known total, 95 on every 'finished' callback.
ReferenceProgress(phase, downloaded, total) ==
    IF phase = "finished" THEN 95 ELSE (downloaded * 90) \div total

\* C19: every committed hook write for a 'downloading' callback with a known
\* total, or for a 'finished' callback with or without a total, stores the
\* progress of the reference policy (0 <= downloaded_bytes <= total_bytes).
HookFollowsReference ==
    [][\A j \in JobIds, total \in 0..MaxBytes :
          \A downloaded \in 0..total :
             /\ (total > 0 /\ hook(j, "downloading", downloaded, total, TRUE))
                   => rows'[j].progress =
                         ReferenceProgress("downloading", downloaded, total)
             /\ hook(j, "finished", downloaded, total, TRUE)
                   => rows'[j].progress =
                         ReferenceProgress("finished", downloaded, total)]_vars

\* C20: a PROCESSING row has progress within 10..95 and a PENDING row has
\* progress 0.
ProgressRangeByStatus ==
    \A j \in JobIds :
        /\ rows[j].status = "PROCESSING" => rows[j].progress \in 10..95
        /\ rows[j].status = "PENDING" => rows[j].progress = 0

====
